---- MODULE Spec2Model ----
(***************************************************************************)
(* Model of scripts/test_detector_on_dataset.py: the hashed-trigram        *)
(* scorer, the three-way classifier and the sequential / process-pool      *)
(* evaluation harness (main, run_evaluation and the functions they call).  *)
(*                                                                         *)
(* Representation:                                                         *)
(*  - a Python str is a sequence of code points; None is the value None;   *)
(*  - a float probability or threshold is an integer number of thousandths *)
(*    (0.45 is 450); a float logit, delta, weight or bias is an integer;   *)
(*  - a 32-bit unsigned hash is the pair <<high 16 bits, low 16 bits>>.    *)
(***************************************************************************)
EXTENDS Integers, Sequences, FiniteSets, Bags, TLC

\* ------------------------------------------------------------------ bounds
\* Rows in the long input file (one kind of valid row, one kind of invalid row).
MaxLongRows == 7
\* Rows in the mixed input file (every kind of row).
MaxMixedRows == 3
\* Length of the texts handed to the text functions on their own.
MaxTextLen == 3

\* --------------------------------------------------------- Python helpers
\* None, where a str, a model dict or a float is expected.
None == <<-1>>
NoneModel == [none |-> TRUE]
NoneFloat == -1000 * 1000
IsNoneModel(m) == "none" \in DOMAIN m

Max(a, b) == IF a >= b THEN a ELSE b
Min(a, b) == IF a <= b THEN a ELSE b

\* str(value or ""): None and "" both give "".
StrOrEmpty(value) == IF value = None THEN <<>> ELSE value

\* The characters str.isspace() accepts, which str.strip() removes.
PyWhitespace ==
  (9..13) \cup (28..32) \cup {133, 160, 5760} \cup (8192..8202)
    \cup {8232, 8233, 8239, 8287, 12288}

\* The class [ \t\f\v] of the regular expression in normalize_text.
ReBlank == {32, 9, 12, 11}

\* str.lower() on the code points the model uses (ASCII and Latin-1 capitals).
LowerChar(c) ==
  IF c \in 65..90 \/ (c \in 192..222 /\ c # 215) THEN c + 32 ELSE c

Lower(s) == [i \in 1..Len(s) |-> LowerChar(s[i])]

\* str.lstrip() and str.rstrip(): from the first, or up to the last, character
\* that is not whitespace.
LStrip(s) ==
  IF \A i \in 1..Len(s) : s[i] \in PyWhitespace THEN <<>>
  ELSE SubSeq(s, CHOOSE i \in 1..Len(s) :
                   s[i] \notin PyWhitespace /\ \A j \in 1..(i - 1) : s[j] \in PyWhitespace,
              Len(s))

RStrip(s) ==
  IF \A i \in 1..Len(s) : s[i] \in PyWhitespace THEN <<>>
  ELSE SubSeq(s, 1, CHOOSE i \in 1..Len(s) :
                      s[i] \notin PyWhitespace /\ \A j \in (i + 1)..Len(s) : s[j] \in PyWhitespace)

Strip(s) == RStrip(LStrip(s))

\* value.replace(" ", " ")
ReplaceNbsp(s) == [i \in 1..Len(s) |-> IF s[i] = 160 THEN 32 ELSE s[i]]

\* re.sub(r"[ \t\f\v]+", " ", s): the first character of a run of the class
\* becomes a space, the other characters of the run (marked -1) are dropped.
InOutput(c) == c # -1
SubBlankRuns(s) ==
  SelectSeq([i \in 1..Len(s) |->
               IF s[i] \notin ReBlank THEN s[i]
               ELSE IF i > 1 /\ s[i - 1] \in ReBlank THEN -1 ELSE 32],
            InOutput)

\* A bug: the non-breaking spaces are replaced after the runs are collapsed.
normalize_text_nbsp_late(value) ==
  Lower(Strip(ReplaceNbsp(SubBlankRuns(StrOrEmpty(value)))))

\* A bug: the result is not stripped.
normalize_text_unstripped(value) ==
  Lower(SubBlankRuns(ReplaceNbsp(StrOrEmpty(value))))

normalize_text(value) ==
  Lower(Strip(SubBlankRuns(ReplaceNbsp(StrOrEmpty(value)))))

\* clamp(), for the finite numbers the model uses (NaN is not modelled).
clamp(value, min_value, max_value) == Max(min_value, Min(max_value, value))

\* ------------------------------------------------------------ 32-bit hash
Two16 == 65536
\* 2166136261 = 0x811C9DC5
FnvOffsetHi == 33052
FnvOffsetLo == 40389
\* 16777619 = 0x01000193 = 256 * 2^16 + 403
FnvPrimeHi == 256
FnvPrimeLo == 403

RECURSIVE BitXor(_, _)
BitXor(a, b) ==
  IF a = 0 THEN b
  ELSE IF b = 0 THEN a
  ELSE 2 * BitXor(a \div 2, b \div 2) + ((a + b) % 2)

\* h ^= c
HashXor(h, c) == <<BitXor(h[1], c \div Two16), BitXor(h[2], c % Two16)>>

\* h = (h * 16777619) & 0xFFFFFFFF
HashMul(h) ==
  LET low == h[2] * FnvPrimeLo
  IN  <<(h[1] * FnvPrimeLo + h[2] * FnvPrimeHi + (low \div Two16)) % Two16,
        low % Two16>>

\* A bug: the reduction keeps the remainder of the low half only, plus the high half.
HashModWide(h, dim) == (h[1] % dim) + (h[2] % dim)

\* h % dim, for dim < 2^15
HashMod(h, dim) == ((h[1] % dim) * (Two16 % dim) + (h[2] % dim)) % dim

RECURSIVE HashFold(_, _, _, _)
HashFold(h, text, start, i) ==
  IF i = 3 THEN h
  ELSE HashFold(HashMul(HashXor(h, text[start + i + 1])), text, start, i + 1)

\* start is 0-based, as in the source; text[k] of the source is text[k + 1] here.
hash_trigram(text, start, dim) ==
  HashMod(HashFold(<<FnvOffsetHi, FnvOffsetLo>>, text, start, 0), dim)

\* ---------------------------------------------------------------- scoring
\* 1000 / (1 + e^-x) for x = 0..7, rounded; sigmoid saturates beyond.
SigmoidTable == <<500, 731, 881, 953, 982, 993, 998, 999>>

\* A bug: the table is read one entry too far on.
sigmoid_shifted(x) ==
  IF x >= 0 THEN SigmoidTable[Min(x + 1, Len(SigmoidTable) - 1) + 1]
  ELSE 1000 - SigmoidTable[Min(1 - x, Len(SigmoidTable) - 1) + 1]

sigmoid(x) ==
  IF x >= 0 THEN SigmoidTable[Min(x, Len(SigmoidTable) - 1) + 1]
  ELSE 1000 - SigmoidTable[Min(-x, Len(SigmoidTable) - 1) + 1]

DefaultModelType == "naive_bayes_hash3"
MinMaxChars == 200

RECURSIVE SumDelta(_, _, _, _, _)
SumDelta(delta, normalized, dim, i, n) ==
  IF i >= n THEN 0
  ELSE IF i + 1 = n THEN delta[hash_trigram(normalized, i, dim) + 1]
  ELSE SumDelta(delta, normalized, dim, i, (i + n) \div 2)
         + SumDelta(delta, normalized, dim, (i + n) \div 2, n)

\* bucket_counts of the logistic branch, as a function over the buckets hit
BucketCount(normalized, dim, n, idx) ==
  Cardinality({i \in 0..(n - 1) : hash_trigram(normalized, i, dim) = idx})

RECURSIVE SumWeighted(_, _, _, _, _)
SumWeighted(weights, normalized, dim, n, idx) ==
  IF idx >= dim THEN 0
  ELSE weights[idx + 1] * BucketCount(normalized, dim, n, idx)
         + SumWeighted(weights, normalized, dim, n, idx + 1)

\* The logistic logit bias + sum(w * count / trigram_count) is a rational;
\* it is taken to the integer below it before the sigmoid table is read.
FloorDiv(a, b) == a \div b

\* A bug: the windows are not limited to max_chars.
compute_score_unbounded(text, model) ==
  LET dim        == Max(1, model.dim)
      normalized == normalize_text(text)
      limit      == Len(normalized)
  IN  IF Len(normalized) < 3 THEN 500
      ELSE IF model.type = "logistic_hash3"
        THEN LET trigram_count == Max(1, limit - 2)
             IN  sigmoid(model.bias
                   + FloorDiv(SumWeighted(model.weights, normalized, dim,
                                          limit - 2, 0), trigram_count))
        ELSE sigmoid(model.prior_logit
                       + SumDelta(model.delta, normalized, dim, 0, limit - 2))

compute_score(text, model) ==
  LET dim        == Max(1, model.dim)
      max_chars  == Max(MinMaxChars, model.max_chars)
      normalized == normalize_text(text)
      limit      == Min(Len(normalized), max_chars)
  IN  IF Len(normalized) < 3 THEN 500
      ELSE IF model.type = "logistic_hash3"
        THEN LET trigram_count == Max(1, limit - 2)
             IN  sigmoid(model.bias
                   + FloorDiv(SumWeighted(model.weights, normalized, dim,
                                          limit - 2, 0), trigram_count))
        ELSE sigmoid(model.prior_logit
                       + SumDelta(model.delta, normalized, dim, 0, limit - 2))

\* JP_CHAR_RE = [぀-ヿ一-鿿]
IsJpChar(c) == c \in 12352..12543 \/ c \in 19968..40959

JpSampleLen == 2400
JpCountSure == 40
JpCountMin == 8

is_likely_japanese_text(text) ==
  LET whole    == StrOrEmpty(text)
      sample   == SubSeq(whole, 1, Min(Len(whole), JpSampleLen))
      jp_count == Cardinality({i \in 1..Len(sample) : IsJpChar(sample[i])})
  IN  IF sample = <<>> THEN FALSE
      ELSE IF jp_count >= JpCountSure THEN TRUE
      ELSE jp_count >= JpCountMin /\ jp_count * 100 >= 3 * Max(1, Len(sample))

\* A bug: the second comparison is turned around.
predict_judge_swapped(score, human_threshold, ai_threshold) ==
  IF score < human_threshold THEN "Human"
  ELSE IF score > ai_threshold THEN "Unknown"
  ELSE "AI"

predict_judge(score, human_threshold, ai_threshold) ==
  IF score < human_threshold THEN "Human"
  ELSE IF score < ai_threshold THEN "Unknown"
  ELSE "AI"

\* ------------------------------------------------------------ model files
\* dict.get(key, default)
Get(obj, key, default) == IF key \in DOMAIN obj THEN obj[key] ELSE default

\* "x or default" for a number (0 is falsy) and for a str ("" is falsy)
NumOr(x, default) == IF x = 0 THEN default ELSE x
StrOr(x, default) == IF x = "" THEN default ELSE x

DefaultMaxChars == 1200
DEFAULT_HUMAN_THRESHOLD == 450
DEFAULT_AI_THRESHOLD == 550

\* The JSON documents the --model and --model-ja paths can name.
ModelFiles ==
  [ nb |->
      [name |-> "nb", type |-> "naive_bayes_hash3", dim |-> 4, max_chars |-> 1200,
       thresholds |-> [human_max |-> 450, ai_min |-> 550],
       prior_logit |-> 0, delta |-> <<0, -1, 0, 2>>],
    lr |->
      [name |-> "lr", type |-> "logistic_hash3", dim |-> 4,
       bias |-> 0, weights |-> <<0, -3, 1, -3>>],
    ja |->
      [name |-> "ja", dim |-> 2, max_chars |-> 100,
       thresholds |-> [human_max |-> 400, ai_min |-> 600],
       prior_logit |-> 0, delta |-> <<0, 0>>],
    zero |->
      [name |-> "zero", type |-> "naive_bayes_hash3", dim |-> 8, max_chars |-> 1200,
       prior_logit |-> 0, delta |-> <<0, 0, 0, 0, 0, 0, 0, 0>>],
    nb200 |->
      [name |-> "nb200", type |-> "naive_bayes_hash3", dim |-> 16, max_chars |-> 200,
       prior_logit |-> 0,
       delta |-> <<-2, -2, 0, -2, -2, -2, -2, -2, 1, -2, -2, 1, -2, -2, -2, 1>>],
    lr200 |->
      [name |-> "lr200", type |-> "logistic_hash3", dim |-> 16, max_chars |-> 100,
       bias |-> 0,
       weights |-> <<-396, -396, 0, -396, -396, -396, -396, -396, 198, -396, -396, 198, -396, -396, -396, 198>>],
    dim0 |->
      [name |-> "dim0", type |-> "naive_bayes_hash3", dim |-> 0, delta |-> <<>>],
    dimneg |->
      [name |-> "dimneg", type |-> "logistic_hash3", dim |-> -1, weights |-> <<>>],
    nb_short |->
      [name |-> "nb_short", type |-> "naive_bayes_hash3", dim |-> 4,
       prior_logit |-> 0, delta |-> <<0, -1, 0>>],
    lr_long |->
      [name |-> "lr_long", type |-> "logistic_hash3", dim |-> 2,
       bias |-> 0, weights |-> <<0, -3, 1>>],
    nb_thr |->
      [name |-> "nb_thr", type |-> "naive_bayes_hash3", dim |-> 2,
       thresholds |-> [human_max |-> 700, ai_min |-> 600],
       prior_logit |-> 0, delta |-> <<0, 0>>] ]

\* The value load_model returns, or the ValueError it raises.
Raised(what) == [raised |-> what]
IsRaised(v) == "raised" \in DOMAIN v

load_model(path) ==
  LET json       == ModelFiles[path]
      dim        == NumOr(Get(json, "dim", 0), 0)
      model_type == StrOr(Get(json, "type", ""), DefaultModelType)
      base       == [name |-> StrOr(Get(json, "name", ""), "hash_model"),
                     type |-> model_type,
                     dim |-> dim,
                     max_chars |-> NumOr(Get(json, "max_chars", 0), DefaultMaxChars),
                     thresholds |-> Get(json, "thresholds", << >>)]
  IN  IF dim <= 0 THEN Raised("Invalid model: dim must be > 0")
      ELSE IF model_type = "logistic_hash3"
        THEN LET weights == Get(json, "weights", <<>>)
             IN  IF Len(weights) # dim
                   THEN Raised("Invalid logistic model: weights length mismatch")
                   ELSE [type |-> base.type, name |-> base.name, dim |-> base.dim,
                         max_chars |-> base.max_chars, thresholds |-> base.thresholds,
                         bias |-> Get(json, "bias", 0), weights |-> weights]
        ELSE LET delta == Get(json, "delta", <<>>)
             IN  IF Len(delta) # dim
                   THEN Raised("Invalid NB model: delta length mismatch")
                   ELSE [type |-> base.type, name |-> base.name, dim |-> base.dim,
                         max_chars |-> base.max_chars, thresholds |-> base.thresholds,
                         prior_logit |-> Get(json, "prior_logit", 0), delta |-> delta]

\* ------------------------------------------------------------- row filter
\* A bug: the label is lower-cased but not stripped.
gt_raw_unstripped(row) == Lower(StrOrEmpty(Get(row, "label", None)))

\* gt_raw = str(row.get("label") or "").strip().lower()
gt_raw_of(row) == Lower(Strip(StrOrEmpty(Get(row, "label", None))))

RECURSIVE SelectFrom(_, _, _, _, _, _)
SelectFrom(rows, i, max_rows, accepted_rows, valid_rows, skipped) ==
  IF i > Len(rows)
    THEN [valid_rows |-> valid_rows, accepted_rows |-> accepted_rows,
          skipped |-> skipped, stop |-> FALSE, examined |-> Len(rows)]
  ELSE LET row    == rows[i]
           gt_raw == gt_raw_of(row)
           text   == StrOrEmpty(Get(row, "text", None))
       IN  IF gt_raw \notin {<<97, 105>>, <<104, 117, 109, 97, 110>>}
             THEN SelectFrom(rows, i + 1, max_rows, accepted_rows, valid_rows, skipped + 1)
           ELSE IF normalize_text(text) = <<>>
             THEN SelectFrom(rows, i + 1, max_rows, accepted_rows, valid_rows, skipped + 1)
           ELSE LET gt == IF gt_raw = <<97, 105>> THEN "AI" ELSE "Human"
                    vr == Append(valid_rows, <<gt, text>>)
                IN  IF max_rows > 0 /\ accepted_rows + 1 >= max_rows
                      THEN [valid_rows |-> vr, accepted_rows |-> accepted_rows + 1,
                            skipped |-> skipped, stop |-> TRUE, examined |-> i]
                      ELSE SelectFrom(rows, i + 1, max_rows, accepted_rows + 1, vr, skipped)

\* A bug: the rows after the one that fills the budget are counted as skipped.
select_valid_rows_counts_rest(batch, limit, accepted) ==
  LET sel == SelectFrom(batch, 1, limit, accepted, <<>>, 0)
  IN  [sel EXCEPT !.skipped = @ + (Len(batch) - sel.examined)]

\* A bug: the budget test lets one row too many through.
select_valid_rows_late(batch, limit, accepted) ==
  SelectFrom(batch, 1, IF limit > 0 THEN limit + 1 ELSE 0, accepted, <<>>, 0)

\* examined is not a return value of the source: it is the number of rows the
\* loop looked at before it returned or broke.
select_valid_rows(batch, limit, accepted) ==
  SelectFrom(batch, 1, limit, accepted, <<>>, 0)

\* ------------------------------------------------------------- evaluation
\* A Counter: a function over the keys written so far; a missing key reads 0.
CounterGet(c, k) == IF k \in DOMAIN c THEN c[k] ELSE 0
CounterAdd(c, k, n) ==
  [x \in DOMAIN c \cup {k} |-> IF x = k THEN CounterGet(c, k) + n ELSE c[x]]

\* EvalState(gt_counts=Counter(), pred_counts=Counter(), conf=Counter())
NewEvalState ==
  [total |-> 0, skipped |-> 0, strict_correct |-> 0, decided_rows |-> 0,
   decided_correct |-> 0, gt_counts |-> << >>, pred_counts |-> << >>,
   conf |-> << >>, score_sum |-> 0, jp_rows |-> 0, jp_strict_correct |-> 0,
   non_jp_rows |-> 0, non_jp_strict_correct |-> 0]

\* The locals of evaluate_valid_rows before its loop.
ZeroPart ==
  [total |-> 0, strict_correct |-> 0, decided_rows |-> 0, decided_correct |-> 0,
   score_sum |-> 0, gt_ai |-> 0, gt_human |-> 0, pred_ai |-> 0, pred_human |-> 0,
   pred_unknown |-> 0, ai_ai |-> 0, ai_human |-> 0, ai_unknown |-> 0,
   human_ai |-> 0, human_human |-> 0, human_unknown |-> 0, jp_rows |-> 0,
   jp_strict_correct |-> 0, non_jp_rows |-> 0, non_jp_strict_correct |-> 0]

B(cond) == IF cond THEN 1 ELSE 0

\* A bug: an Unknown prediction counts as correct.
Tally_unknown_correct(acc, gt, is_japanese, score, pred) ==
  [total |-> acc.total + 1,
   score_sum |-> acc.score_sum + score,
   strict_correct |-> acc.strict_correct + B(pred = gt \/ pred = "Unknown"),
   jp_rows |-> acc.jp_rows + B(is_japanese),
   jp_strict_correct |-> acc.jp_strict_correct + B(is_japanese /\ pred = gt),
   non_jp_rows |-> acc.non_jp_rows + B(~is_japanese),
   non_jp_strict_correct |-> acc.non_jp_strict_correct + B(~is_japanese /\ pred = gt),
   decided_rows |-> acc.decided_rows + B(pred # "Unknown"),
   decided_correct |-> acc.decided_correct + B(pred # "Unknown" /\ pred = gt),
   gt_ai |-> acc.gt_ai + B(gt = "AI"),
   ai_ai |-> acc.ai_ai + B(gt = "AI" /\ pred = "AI"),
   ai_human |-> acc.ai_human + B(gt = "AI" /\ pred = "Human"),
   ai_unknown |-> acc.ai_unknown + B(gt = "AI" /\ pred \notin {"AI", "Human"}),
   gt_human |-> acc.gt_human + B(gt # "AI"),
   human_ai |-> acc.human_ai + B(gt # "AI" /\ pred = "AI"),
   human_human |-> acc.human_human + B(gt # "AI" /\ pred = "Human"),
   human_unknown |-> acc.human_unknown + B(gt # "AI" /\ pred \notin {"AI", "Human"}),
   pred_ai |-> acc.pred_ai + B(pred = "AI"),
   pred_human |-> acc.pred_human + B(pred = "Human"),
   pred_unknown |-> acc.pred_unknown + B(pred \notin {"AI", "Human"})]

\* The increments of one pass of the loop body of evaluate_valid_rows.
Tally(acc, gt, is_japanese, score, pred) ==
  [total |-> acc.total + 1,
   score_sum |-> acc.score_sum + score,
   strict_correct |-> acc.strict_correct + B(pred = gt),
   jp_rows |-> acc.jp_rows + B(is_japanese),
   jp_strict_correct |-> acc.jp_strict_correct + B(is_japanese /\ pred = gt),
   non_jp_rows |-> acc.non_jp_rows + B(~is_japanese),
   non_jp_strict_correct |-> acc.non_jp_strict_correct + B(~is_japanese /\ pred = gt),
   decided_rows |-> acc.decided_rows + B(pred # "Unknown"),
   decided_correct |-> acc.decided_correct + B(pred # "Unknown" /\ pred = gt),
   gt_ai |-> acc.gt_ai + B(gt = "AI"),
   ai_ai |-> acc.ai_ai + B(gt = "AI" /\ pred = "AI"),
   ai_human |-> acc.ai_human + B(gt = "AI" /\ pred = "Human"),
   ai_unknown |-> acc.ai_unknown + B(gt = "AI" /\ pred \notin {"AI", "Human"}),
   gt_human |-> acc.gt_human + B(gt # "AI"),
   human_ai |-> acc.human_ai + B(gt # "AI" /\ pred = "AI"),
   human_human |-> acc.human_human + B(gt # "AI" /\ pred = "Human"),
   human_unknown |-> acc.human_unknown + B(gt # "AI" /\ pred \notin {"AI", "Human"}),
   pred_ai |-> acc.pred_ai + B(pred = "AI"),
   pred_human |-> acc.pred_human + B(pred = "Human"),
   pred_unknown |-> acc.pred_unknown + B(pred \notin {"AI", "Human"})]

\* A bug: the secondary model scores every row once it is configured.
RowChoice_every_row(text, actual_model, actual_model_ja, human_threshold, ai_threshold, human_threshold_ja, ai_threshold_ja) ==
  LET is_japanese == is_likely_japanese_text(text)
  IN  IF ~IsNoneModel(actual_model_ja)
        THEN [is_japanese |-> is_japanese, row_model |-> actual_model_ja,
              row_human_threshold |-> IF human_threshold_ja = NoneFloat THEN human_threshold ELSE human_threshold_ja,
              row_ai_threshold |-> IF ai_threshold_ja = NoneFloat THEN ai_threshold ELSE ai_threshold_ja]
        ELSE [is_japanese |-> is_japanese, row_model |-> actual_model,
              row_human_threshold |-> human_threshold, row_ai_threshold |-> ai_threshold]

\* The choice of model and thresholds for one row, then its score and prediction.
RowChoice(text, actual_model, actual_model_ja, human_threshold, ai_threshold, human_threshold_ja, ai_threshold_ja) ==
  LET is_japanese == is_likely_japanese_text(text)
  IN  IF ~IsNoneModel(actual_model_ja) /\ is_japanese
        THEN [is_japanese |-> is_japanese, row_model |-> actual_model_ja,
              row_human_threshold |-> IF human_threshold_ja = NoneFloat THEN human_threshold ELSE human_threshold_ja,
              row_ai_threshold |-> IF ai_threshold_ja = NoneFloat THEN ai_threshold ELSE ai_threshold_ja]
        ELSE [is_japanese |-> is_japanese, row_model |-> actual_model,
              row_human_threshold |-> human_threshold, row_ai_threshold |-> ai_threshold]

\* One pass of the loop body of evaluate_valid_rows over the row <<gt, text>>.
EvalRow(acc, gt, text, actual_model, actual_model_ja, human_threshold, ai_threshold, human_threshold_ja, ai_threshold_ja) ==
  LET c     == RowChoice(text, actual_model, actual_model_ja, human_threshold, ai_threshold, human_threshold_ja, ai_threshold_ja)
      score == compute_score(text, c.row_model)
      pred  == predict_judge(score, c.row_human_threshold, c.row_ai_threshold)
  IN  Tally(acc, gt, c.is_japanese, score, pred)

RECURSIVE EvalRows(_, _, _, _, _, _, _, _, _)
EvalRows(acc, rows, i, actual_model, actual_model_ja, human_threshold, ai_threshold, human_threshold_ja, ai_threshold_ja) ==
  IF i > Len(rows) THEN acc
  ELSE EvalRows(EvalRow(acc, rows[i][1], rows[i][2], actual_model, actual_model_ja,
                        human_threshold, ai_threshold,
                        human_threshold_ja, ai_threshold_ja),
                rows, i + 1, actual_model, actual_model_ja,
                human_threshold, ai_threshold, human_threshold_ja, ai_threshold_ja)

\* worker_model and worker_model_ja are the globals WORKER_MODEL and
\* WORKER_MODEL_JA of the process that runs the call.
evaluate_valid_rows(rows, human_threshold, ai_threshold, model, model_ja, human_threshold_ja, ai_threshold_ja, worker_model, worker_model_ja) ==
  LET actual_model    == IF ~IsNoneModel(model) THEN model ELSE worker_model
      actual_model_ja == IF ~IsNoneModel(model_ja) THEN model_ja ELSE worker_model_ja
  IN  IF IsNoneModel(actual_model) THEN Raised("Model is not initialized")
      ELSE EvalRows(ZeroPart, rows, 1, actual_model, actual_model_ja,
                    human_threshold, ai_threshold,
                    human_threshold_ja, ai_threshold_ja)

\* A bug: one field is assigned where it should be added to.
merge_partial_result_assign(st, part) ==
  [st EXCEPT
     !.total = @ + part.total,
     !.strict_correct = @ + part.strict_correct,
     !.decided_rows = part.decided_rows,
     !.decided_correct = @ + part.decided_correct,
     !.gt_counts = CounterAdd(CounterAdd(@, "AI", part.gt_ai), "Human", part.gt_human)]

\* A bug: one field is added to the wrong field of the state.
merge_partial_result_crossed(st, part) ==
  [st EXCEPT
     !.total = @ + part.total,
     !.strict_correct = @ + part.strict_correct,
     !.decided_rows = @ + part.decided_rows,
     !.decided_correct = @ + part.decided_rows]

\* A bug: the non-Japanese rows of a part are not added.
merge_partial_result_no_non_jp(st, part) ==
  [st EXCEPT
     !.total = @ + part.total,
     !.strict_correct = @ + part.strict_correct,
     !.decided_rows = @ + part.decided_rows,
     !.decided_correct = @ + part.decided_correct,
     !.score_sum = @ + part.score_sum,
     !.gt_counts = CounterAdd(CounterAdd(@, "AI", part.gt_ai), "Human", part.gt_human),
     !.pred_counts =
        CounterAdd(CounterAdd(CounterAdd(@, "AI", part.pred_ai),
                              "Human", part.pred_human),
                   "Unknown", part.pred_unknown),
     !.conf =
        CounterAdd(CounterAdd(CounterAdd(CounterAdd(CounterAdd(CounterAdd(@,
          <<"AI", "AI">>, part.ai_ai),
          <<"AI", "Human">>, part.ai_human),
          <<"AI", "Unknown">>, part.ai_unknown),
          <<"Human", "AI">>, part.human_ai),
          <<"Human", "Human">>, part.human_human),
          <<"Human", "Unknown">>, part.human_unknown),
     !.jp_rows = @ + part.jp_rows,
     !.jp_strict_correct = @ + part.jp_strict_correct,
     !.non_jp_strict_correct = @ + part.non_jp_strict_correct]

merge_partial_result(st, part) ==
  [st EXCEPT
     !.total = @ + part.total,
     !.strict_correct = @ + part.strict_correct,
     !.decided_rows = @ + part.decided_rows,
     !.decided_correct = @ + part.decided_correct,
     !.score_sum = @ + part.score_sum,
     !.gt_counts = CounterAdd(CounterAdd(@, "AI", part.gt_ai), "Human", part.gt_human),
     !.pred_counts =
        CounterAdd(CounterAdd(CounterAdd(@, "AI", part.pred_ai),
                              "Human", part.pred_human),
                   "Unknown", part.pred_unknown),
     !.conf =
        CounterAdd(CounterAdd(CounterAdd(CounterAdd(CounterAdd(CounterAdd(@,
          <<"AI", "AI">>, part.ai_ai),
          <<"AI", "Human">>, part.ai_human),
          <<"AI", "Unknown">>, part.ai_unknown),
          <<"Human", "AI">>, part.human_ai),
          <<"Human", "Human">>, part.human_human),
          <<"Human", "Unknown">>, part.human_unknown),
     !.jp_rows = @ + part.jp_rows,
     !.jp_strict_correct = @ + part.jp_strict_correct,
     !.non_jp_rows = @ + part.non_jp_rows,
     !.non_jp_strict_correct = @ + part.non_jp_strict_correct]

\* --------------------------------------------------------------- the run
VARIABLES
  args,               \* the parsed command line
  pc,                 \* where main() is
  model, model_ja,    \* main: the loaded models
  human_threshold, ai_threshold, human_threshold_ja, ai_threshold_ja,
  state,              \* run_evaluation: the EvalState
  accepted_rows, should_stop,
  rows,               \* run_evaluation: the batch read last
  pending,            \* run_evaluation: the futures not merged yet, as a bag
  WORKER_MODEL, WORKER_MODEL_JA,   \* the globals of the pool's processes
  summary,            \* the summary file, None until it is written
  error,              \* the exception that ended main(), "" if none
  rows_read,          \* history: rows the data source has yielded
  valid_read,         \* history: how many of them pass the filter's two tests
  n_submitted,        \* history: executor.submit calls
  n_merged,           \* history: merge_partial_result calls on a task's result
  seq,                \* the same rows fed one by one to the sequential loop
  text,               \* a str handed to one of the text functions on its own
  call                \* the call of a text function made last, and what it returned

mainVars == <<args, model, model_ja, human_threshold, ai_threshold, human_threshold_ja, ai_threshold_ja>>
loopVars == <<state, accepted_rows, should_stop, rows, pending>>
poolVars == <<WORKER_MODEL, WORKER_MODEL_JA>>
histVars == <<rows_read, valid_read, n_submitted, n_merged, seq>>
callVars == <<text, call>>
vars == <<pc, mainVars, loopVars, poolVars, summary, error, histVars, callVars>>

\* The rows of the input files.
Abc == <<97, 98, 99>>
Jp8 == [i \in 1..8 |-> 12354]
RowAi == [label |-> <<65, 73>>, text |-> Abc]                             \* "AI", "abc"
RowHumanJp == [label |-> <<32, 72, 117, 109, 97, 110, 32>>, text |-> Jp8] \* " Human ", hiragana
RowBot == [label |-> <<98, 111, 116>>, text |-> Abc]                      \* "bot", "abc"
RowBlank == [label |-> <<97, 105>>, text |-> <<32, 9, 160>>]              \* "ai", blanks
\* --input: a file is any sequence of at most max_len rows out of pool, which
\* iter_batches yields in batches of the sizes given (at most batch_size rows).
InputFiles ==
  [ long  |-> [pool |-> {RowAi, RowBlank}, max_len |-> MaxLongRows, batch_sizes |-> {1}],
    mixed |-> [pool |-> {RowAi, RowHumanJp, RowBot, RowBlank}, max_len |-> MaxMixedRows,
               batch_sizes |-> {1, 2}] ]
Batches == UNION {[1..n -> InputFiles[args.input].pool] : n \in InputFiles[args.input].batch_sizes}
MaxStreamRows == InputFiles[args.input].max_len

\* The command lines: runs that pass configuration, and runs that must not.
GoodArgs ==
  [input : {"mixed"}, model : {"nb"}, model_ja : {"", "ja"},
   human_threshold : {-1000}, ai_threshold : {-1000},
   human_threshold_ja : {-1000}, ai_threshold_ja : {-1000},
   max_rows : {0, 2}, workers : {1, 2}]
    \cup
  [input : {"mixed"}, model : {"zero"}, model_ja : {""},
   human_threshold : {-1000}, ai_threshold : {-1000},
   human_threshold_ja : {-1000}, ai_threshold_ja : {-1000},
   max_rows : {0}, workers : {1, 2}]
    \cup
  [input : {"long"}, model : {"nb"}, model_ja : {""},
   human_threshold : {-1000}, ai_threshold : {-1000},
   human_threshold_ja : {-1000}, ai_threshold_ja : {-1000},
   max_rows : {0}, workers : {2}]
    \cup
  [input : {"mixed"}, model : {"lr"}, model_ja : {"nb_thr"},
   human_threshold : {300}, ai_threshold : {-1000},
   human_threshold_ja : {-1000}, ai_threshold_ja : {800},
   max_rows : {-1}, workers : {0}]
BadArgs ==
  [input : {"mixed"}, model : {"dim0", "dimneg", "nb_short", "lr_long", "nb_thr"}, model_ja : {""},
   human_threshold : {-1000}, ai_threshold : {-1000},
   human_threshold_ja : {-1000}, ai_threshold_ja : {-1000},
   max_rows : {0}, workers : {2}]
    \cup
  [input : {"mixed"}, model : {"nb"}, model_ja : {"dim0", "nb_short", "lr_long", "nb_thr"},
   human_threshold : {-1000}, ai_threshold : {-1000},
   human_threshold_ja : {-1000}, ai_threshold_ja : {-1000, 300},
   max_rows : {0}, workers : {2}]
    \cup
  [input : {"mixed"}, model : {"nb"}, model_ja : {"", "ja"},
   human_threshold : {600, 1500}, ai_threshold : {-1000, 600},
   human_threshold_ja : {-1000}, ai_threshold_ja : {-1000},
   max_rows : {0}, workers : {2}]

\* run_evaluation's arguments and the locals it derives from them
max_rows == Max(0, args.max_rows)
worker_count == Max(1, Max(1, args.workers))
InflightPerWorker == 3
MinInflight == 2
\* Two bugs: a cap one too high, and a cap without the factor.
max_inflight_plus == Max(MinInflight, worker_count * InflightPerWorker) + 1
max_inflight_low == Max(MinInflight, worker_count)
max_inflight == Max(MinInflight, worker_count * InflightPerWorker)

NoCall == [op |-> "none"]
NewSeq == [state |-> NewEvalState, accepted_rows |-> 0, should_stop |-> FALSE]

Init ==
  /\ args \in GoodArgs \cup BadArgs
  /\ pc = "load"
  /\ model = NoneModel /\ model_ja = NoneModel
  /\ human_threshold = NoneFloat /\ ai_threshold = NoneFloat
  /\ human_threshold_ja = NoneFloat /\ ai_threshold_ja = NoneFloat
  /\ state = NewEvalState /\ accepted_rows = 0 /\ should_stop = FALSE
  /\ rows = <<>> /\ pending = EmptyBag
  /\ WORKER_MODEL = NoneModel /\ WORKER_MODEL_JA = NoneModel
  /\ summary = NoneModel /\ error = ""
  /\ rows_read = 0 /\ valid_read = 0 /\ n_submitted = 0 /\ n_merged = 0
  /\ seq = NewSeq
  /\ text = <<>> /\ call = NoCall

\* main: the two load_model calls
LoadModels ==
  /\ pc = "load"
  /\ LET m  == load_model(args.model)
         mj == IF args.model_ja # "" THEN load_model(args.model_ja) ELSE NoneModel
     IN  IF IsRaised(m) \/ IsRaised(mj)
           THEN /\ pc' = "error"
                /\ error' = IF IsRaised(m) THEN m.raised ELSE mj.raised
                /\ UNCHANGED <<model, model_ja>>
           ELSE /\ pc' = "thresholds"
                /\ model' = m /\ model_ja' = mj
                /\ UNCHANGED error
  /\ UNCHANGED <<args, human_threshold, ai_threshold, human_threshold_ja, ai_threshold_ja>>
  /\ UNCHANGED <<loopVars, poolVars, summary, histVars>>
  /\ UNCHANGED callVars

\* clamp(float(model.get("thresholds", {}).get(key, default)), 0.0, 1.0)
ModelThreshold(m, key, default) == clamp(Get(m.thresholds, key, default), 0, 1000)
\* model default if the argument is negative, else the clamped argument
Resolve(arg, model_default) == IF arg < 0 THEN model_default ELSE clamp(arg, 0, 1000)

\* A bug: the check on the secondary thresholds is missing.
ResolveThresholdsNoJaCheck ==
  /\ pc = "thresholds"
  /\ LET h  == Resolve(args.human_threshold, ModelThreshold(model, "human_max", DEFAULT_HUMAN_THRESHOLD))
         a  == Resolve(args.ai_threshold, ModelThreshold(model, "ai_min", DEFAULT_AI_THRESHOLD))
         hj == IF IsNoneModel(model_ja) THEN h
               ELSE Resolve(args.human_threshold_ja, ModelThreshold(model_ja, "human_max", DEFAULT_HUMAN_THRESHOLD))
         aj == IF IsNoneModel(model_ja) THEN a
               ELSE Resolve(args.ai_threshold_ja, ModelThreshold(model_ja, "ai_min", DEFAULT_AI_THRESHOLD))
     IN  IF a <= h
           THEN /\ pc' = "error"
                /\ error' = "--ai-threshold must be greater than --human-threshold"
                /\ UNCHANGED <<human_threshold, ai_threshold, human_threshold_ja, ai_threshold_ja>>
           ELSE /\ pc' = "evaluate"
                /\ human_threshold' = h /\ ai_threshold' = a
                /\ human_threshold_ja' = hj /\ ai_threshold_ja' = aj
                /\ UNCHANGED error
  /\ UNCHANGED <<args, model, model_ja, loopVars, poolVars, summary, histVars>>
  /\ UNCHANGED callVars

\* main: the thresholds, and the two checks on them
ResolveThresholds ==
  /\ pc = "thresholds"
  /\ LET h  == Resolve(args.human_threshold, ModelThreshold(model, "human_max", DEFAULT_HUMAN_THRESHOLD))
         a  == Resolve(args.ai_threshold, ModelThreshold(model, "ai_min", DEFAULT_AI_THRESHOLD))
         hj == IF IsNoneModel(model_ja) THEN h
               ELSE Resolve(args.human_threshold_ja, ModelThreshold(model_ja, "human_max", DEFAULT_HUMAN_THRESHOLD))
         aj == IF IsNoneModel(model_ja) THEN a
               ELSE Resolve(args.ai_threshold_ja, ModelThreshold(model_ja, "ai_min", DEFAULT_AI_THRESHOLD))
     IN  IF a <= h
           THEN /\ pc' = "error"
                /\ error' = "--ai-threshold must be greater than --human-threshold"
                /\ UNCHANGED <<human_threshold, ai_threshold, human_threshold_ja, ai_threshold_ja>>
         ELSE IF ~IsNoneModel(model_ja) /\ aj <= hj
           THEN /\ pc' = "error"
                /\ error' = "--ai-threshold-ja must be greater than --human-threshold-ja"
                /\ human_threshold' = h /\ ai_threshold' = a
                /\ UNCHANGED <<human_threshold_ja, ai_threshold_ja>>
         ELSE /\ pc' = "evaluate"
              /\ human_threshold' = h /\ ai_threshold' = a
              /\ human_threshold_ja' = hj /\ ai_threshold_ja' = aj
              /\ UNCHANGED error
  /\ UNCHANGED <<args, model, model_ja, loopVars, poolVars, summary, histVars>>
  /\ UNCHANGED callVars

\* run_evaluation up to its loops; in the parallel branch the pool starts and
\* init_worker runs in every worker process.
StartEvaluation ==
  /\ pc = "evaluate"
  /\ pc' = "stream"
  /\ state' = NewEvalState /\ accepted_rows' = 0 /\ should_stop' = FALSE
  /\ IF worker_count = 1
       THEN UNCHANGED <<pending, WORKER_MODEL, WORKER_MODEL_JA>>
       ELSE pending' = EmptyBag /\ WORKER_MODEL' = model /\ WORKER_MODEL_JA' = model_ja
  /\ UNCHANGED <<mainVars, rows, summary, error, histVars>>
  /\ UNCHANGED callVars

\* The two tests of select_valid_rows on one row (history only).
RowIsValid(row) ==
  /\ Lower(Strip(StrOrEmpty(Get(row, "label", None)))) \in {<<97, 105>>, <<104, 117, 109, 97, 110>>}
  /\ normalize_text(StrOrEmpty(Get(row, "text", None))) # <<>>
ValidIn(batch) == Cardinality({i \in 1..Len(batch) : RowIsValid(batch[i])})

\* One pass of the sequential loop over a batch; run holds state, accepted_rows
\* and should_stop. The controlling process never sets its own WORKER_MODEL.
SequentialBody(run, batch) ==
  LET sel   == select_valid_rows(batch, max_rows, run.accepted_rows)
      first == [run.state EXCEPT !.skipped = @ + sel.skipped]
      part  == evaluate_valid_rows(sel.valid_rows, human_threshold, ai_threshold, model, model_ja, human_threshold_ja, ai_threshold_ja, NoneModel, NoneModel)
  IN  [state |-> IF Len(sel.valid_rows) > 0 THEN merge_partial_result(first, part) ELSE first,
       accepted_rows |-> sel.accepted_rows,
       should_stop |-> sel.stop]

\* The sequential loop over the rows of a batch, each row a batch of its own.
RECURSIVE SeqFeed(_, _, _)
SeqFeed(run, batch, i) ==
  IF i > Len(batch) \/ run.should_stop THEN run
  ELSE SeqFeed(SequentialBody(run, <<batch[i]>>), batch, i + 1)

ReadHistory(batch) ==
  /\ rows_read' = rows_read + Len(batch)
  /\ valid_read' = valid_read + ValidIn(batch)
  /\ seq' = SeqFeed(seq, batch, 1)

\* worker_count == 1: one iteration of the loop over pf.iter_batches
NextBatchSequential(batch) ==
  /\ pc = "stream" /\ worker_count = 1
  /\ rows_read + Len(batch) <= MaxStreamRows
  /\ LET run == SequentialBody([state |-> state, accepted_rows |-> accepted_rows, should_stop |-> should_stop], batch)
     IN  /\ state' = run.state
         /\ accepted_rows' = run.accepted_rows
         /\ should_stop' = run.should_stop
         /\ pc' = IF run.should_stop THEN "report" ELSE "stream"
  /\ rows' = batch
  /\ ReadHistory(batch)
  /\ UNCHANGED <<mainVars, pending, poolVars, summary, error, n_submitted, n_merged>>
  /\ UNCHANGED callVars

\* executor.submit(evaluate_valid_rows, valid_rows, human_threshold, ai_threshold, None, None, human_threshold_ja, ai_threshold_ja)
\* The Future it returns: the call, whether it is done, its result, and whether
\* as_completed has handed it out (merges is history: the merges of its result).
\* returns is what the call returns in a worker process: the arguments are
\* pickled here and init_worker has set the globals of every worker, so it is
\* settled at submission; the future shows it as its result once it is done.
Submitted(valid_rows) ==
  [rows |-> valid_rows, human_threshold |-> human_threshold, ai_threshold |-> ai_threshold,
   model |-> NoneModel, model_ja |-> NoneModel,
   human_threshold_ja |-> human_threshold_ja, ai_threshold_ja |-> ai_threshold_ja,
   returns |-> evaluate_valid_rows(valid_rows, human_threshold, ai_threshold, NoneModel, NoneModel,
                                   human_threshold_ja, ai_threshold_ja, WORKER_MODEL, WORKER_MODEL_JA),
   done |-> FALSE, result |-> NoneModel, yielded |-> FALSE, merges |-> 0]

\* pending is used as a collection only (len, wait, as_completed), so it is kept
\* as the bag of its futures; two futures of equal content are two copies.
Futures == BagToSet(pending)
Replace(bag, f, g) == (bag (-) SetToBag({f})) (+) SetToBag({g})
Only(bag, keep) == [f \in {g \in BagToSet(bag) : g.done = keep} |-> bag[f]]

\* worker_count > 1: one iteration of the loop, up to the test of the in-flight cap
NextBatchParallel(batch) ==
  /\ pc = "stream" /\ worker_count > 1
  /\ rows_read + Len(batch) <= MaxStreamRows
  /\ LET sel == select_valid_rows(batch, max_rows, accepted_rows)
         new_pending == IF Len(sel.valid_rows) > 0
                          THEN pending (+) SetToBag({Submitted(sel.valid_rows)})
                          ELSE pending
     IN  /\ accepted_rows' = sel.accepted_rows
         /\ should_stop' = sel.stop
         /\ state' = [state EXCEPT !.skipped = @ + sel.skipped]
         /\ pending' = new_pending
         /\ n_submitted' = n_submitted + B(Len(sel.valid_rows) > 0)
         /\ pc' = IF BagCardinality(new_pending) >= max_inflight THEN "wait"
                  ELSE IF sel.stop THEN "drain" ELSE "stream"
  /\ rows' = batch
  /\ ReadHistory(batch)
  /\ UNCHANGED <<mainVars, WORKER_MODEL, WORKER_MODEL_JA, summary, error, n_merged>>
  /\ UNCHANGED callVars

\* The result of the call of future f in a worker process.
ResultOf(f) ==
  evaluate_valid_rows(f.rows, f.human_threshold, f.ai_threshold, f.model, f.model_ja, f.human_threshold_ja, f.ai_threshold_ja, WORKER_MODEL, WORKER_MODEL_JA)

\* A bug: the worker adds its result to the EvalState itself.
WorkerCompletesWritesState(f) ==
  /\ pc \in {"wait", "drain"}
  /\ f \in Futures
  /\ ~f.done
  /\ pending' = Replace(pending, f, [f EXCEPT !.done = TRUE, !.result = ResultOf(f)])
  /\ state' = merge_partial_result(state, ResultOf(f))
  /\ UNCHANGED <<pc, mainVars, accepted_rows, should_stop, rows, WORKER_MODEL, WORKER_MODEL_JA, summary, error, histVars>>
  /\ UNCHANGED callVars

\* A worker that hangs: its task never completes.
WorkerStuck(f) ==
  /\ FALSE
  /\ UNCHANGED vars

\* A worker process runs a submitted call to its end. The controller learns of
\* it only in wait() and as_completed(), so the step is taken while it is there.
WorkerCompletes(f) ==
  /\ pc \in {"wait", "drain"}
  /\ f \in Futures
  /\ ~f.done
  /\ pending' = Replace(pending, f, [f EXCEPT !.done = TRUE, !.result = f.returns])
  /\ UNCHANGED <<pc, mainVars, state, accepted_rows, should_stop, rows, WORKER_MODEL, WORKER_MODEL_JA, summary, error, histVars>>
  /\ UNCHANGED callVars

\* A future as the executor leaves it when a worker process of the pool dies.
Broken(f) == IF f.done THEN f ELSE [f EXCEPT !.done = TRUE, !.result = Raised("BrokenProcessPool")]

\* A worker process dies: the executor fails every future that is not done.
PoolBreaks ==
  /\ pc \in {"wait", "drain"}
  /\ \E f \in Futures : ~f.done
  /\ pending' = [g \in {Broken(f) : f \in Futures} |-> pending[CHOOSE f \in Futures : Broken(f) = g]]
  /\ UNCHANGED <<pc, mainVars, state, accepted_rows, should_stop, rows, WORKER_MODEL, WORKER_MODEL_JA, summary, error, histVars>>
  /\ UNCHANGED callVars

\* for fut in done: merge_partial_result(state, fut.result())
RECURSIVE MergeResults(_, _)
MergeResults(st, done) ==
  IF done = EmptyBag THEN st
  ELSE LET fut == CHOOSE f \in BagToSet(done) : TRUE
       IN  MergeResults(merge_partial_result(st, fut.result), done (-) SetToBag({fut}))

\* The futures of a bag whose result() returns rather than raises.
Succeeded(done) == [f \in {g \in BagToSet(done) : ~IsRaised(g.result)} |-> done[f]]

\* A bug: the tasks merged at the cap stay in the pending list.
WaitKeepsDone ==
  /\ pc = "wait"
  /\ \E f \in Futures : f.done
  /\ LET done     == Only(pending, TRUE)
         not_done == Only(pending, FALSE)
     IN  /\ pending' = pending
         /\ IF \E f \in BagToSet(done) : IsRaised(f.result)
              THEN /\ pc' = "error" /\ error' = "worker task raised"
                   /\ \E merged \in SubBag(Succeeded(done)) :
                        /\ state' = MergeResults(state, merged)
                        /\ n_merged' = n_merged + BagCardinality(merged)
              ELSE /\ state' = MergeResults(state, done)
                   /\ n_merged' = n_merged + BagCardinality(done)
                   /\ pc' = IF should_stop THEN "drain" ELSE "stream"
                   /\ UNCHANGED error
  /\ UNCHANGED <<mainVars, accepted_rows, should_stop, rows, WORKER_MODEL, WORKER_MODEL_JA, summary, rows_read, valid_read, n_submitted, seq>>
  /\ UNCHANGED callVars

\* wait(pending, return_when=FIRST_COMPLETED) returns; its done set is merged
\* and pending becomes list(not_done). The loop over done ends at the first
\* future whose result() raises, with the futures before it merged.
WaitFirstCompleted ==
  /\ pc = "wait"
  /\ \E f \in Futures : f.done
  /\ LET done     == Only(pending, TRUE)
         not_done == Only(pending, FALSE)
     IN  /\ pending' = not_done
         /\ IF \E f \in BagToSet(done) : IsRaised(f.result)
              THEN /\ pc' = "error" /\ error' = "worker task raised"
                   /\ \E merged \in SubBag(Succeeded(done)) :
                        /\ state' = MergeResults(state, merged)
                        /\ n_merged' = n_merged + BagCardinality(merged)
              ELSE /\ state' = MergeResults(state, done)
                   /\ n_merged' = n_merged + BagCardinality(done)
                   /\ pc' = IF should_stop THEN "drain" ELSE "stream"
                   /\ UNCHANGED error
  /\ UNCHANGED <<mainVars, accepted_rows, should_stop, rows, WORKER_MODEL, WORKER_MODEL_JA, summary, rows_read, valid_read, n_submitted, seq>>
  /\ UNCHANGED callVars

\* pf.iter_batches is exhausted
EndOfStream ==
  /\ pc = "stream"
  /\ pc' = IF worker_count = 1 THEN "report" ELSE "drain"
  /\ UNCHANGED <<mainVars, loopVars, poolVars, summary, error, histVars>>
  /\ UNCHANGED callVars

\* A bug: the exception is caught and the run goes on to its report.
ReadFailsCaught ==
  /\ pc = "stream"
  /\ pc' = "report" /\ error' = "data source read failed"
  /\ UNCHANGED <<mainVars, loopVars, poolVars, summary, histVars>>
  /\ UNCHANGED callVars

\* pf.iter_batches raises: the exception leaves run_evaluation and main
ReadFails ==
  /\ pc = "stream"
  /\ pc' = "error" /\ error' = "data source read failed"
  /\ UNCHANGED <<mainVars, loopVars, poolVars, summary, histVars>>
  /\ UNCHANGED callVars

\* as_completed(pending) hands out one finished future, which is merged
AsCompleted(f) ==
  /\ pc = "drain"
  /\ f \in Futures
  /\ f.done /\ ~f.yielded
  /\ IF IsRaised(f.result)
       THEN /\ pc' = "error" /\ error' = "worker task raised"
            /\ pending' = Replace(pending, f, [f EXCEPT !.yielded = TRUE])
            /\ UNCHANGED <<state, n_merged>>
       ELSE /\ state' = merge_partial_result(state, f.result)
            /\ pending' = Replace(pending, f, [f EXCEPT !.yielded = TRUE, !.merges = @ + 1])
            /\ n_merged' = n_merged + 1
            /\ UNCHANGED <<pc, error>>
  /\ UNCHANGED <<mainVars, accepted_rows, should_stop, rows, poolVars, summary, rows_read, valid_read, n_submitted, seq>>
  /\ UNCHANGED callVars

\* A bug: the pool is left without the final drain having finished.
ExitPoolEarly ==
  /\ pc = "drain"
  /\ pc' = "report"
  /\ UNCHANGED <<mainVars, loopVars, poolVars, summary, error, histVars>>
  /\ UNCHANGED callVars

\* as_completed(pending) is exhausted and the with block shuts the pool down
ExitPool ==
  /\ pc = "drain"
  /\ \A f \in Futures : f.yielded
  /\ pc' = "report"
  /\ UNCHANGED <<mainVars, loopVars, poolVars, summary, error, histVars>>
  /\ UNCHANGED callVars

\* round(a / b, 6) if b else 0.0, in millionths
Rate(a, b) == IF b = 0 THEN 0 ELSE (2 * a * 1000000 + b) \div (2 * b)

\* The dict run_evaluation returns (the integer fields and the rates).
Summary(st) ==
  [max_rows |-> max_rows,
   processed_rows |-> st.total,
   skipped_rows |-> st.skipped,
   strict_accuracy |-> Rate(st.strict_correct, st.total),
   decided_accuracy |-> Rate(st.decided_correct, st.decided_rows),
   coverage |-> Rate(st.decided_rows, st.total),
   unknown_rate |-> Rate(CounterGet(st.pred_counts, "Unknown"), st.total),
   jp_rows |-> st.jp_rows,
   non_jp_rows |-> st.non_jp_rows,
   ground_truth_counts |-> st.gt_counts,
   prediction_counts |-> st.pred_counts,
   confusion_matrix |->
     [k \in {"AI", "Human"} \X {"AI", "Human", "Unknown"} |-> CounterGet(st.conf, k)]]

\* run_evaluation returns and main writes the summary file
Report ==
  /\ pc = "report"
  /\ summary' = Summary(state)
  /\ pc' = "done"
  /\ UNCHANGED <<mainVars, loopVars, poolVars, error, histVars>>
  /\ UNCHANGED callVars

Next ==
  \/ LoadModels
  \/ ResolveThresholds
  \/ StartEvaluation
  \/ \E batch \in Batches : NextBatchSequential(batch)
  \/ \E batch \in Batches : NextBatchParallel(batch)
  \/ \E f \in Futures : WorkerCompletes(f)
  \/ PoolBreaks
  \/ WaitFirstCompleted
  \/ EndOfStream
  \/ ReadFails
  \/ \E f \in Futures : AsCompleted(f)
  \/ ExitPool
  \/ Report

Spec == Init /\ [][Next]_vars

\* The steps of the main process, and the completion of a task by a worker.
MainStep ==
  \/ LoadModels
  \/ ResolveThresholds
  \/ StartEvaluation
  \/ EndOfStream
  \/ ReadFails
  \/ \E batch \in Batches : NextBatchSequential(batch)
  \/ \E batch \in Batches : NextBatchParallel(batch)
  \/ WaitFirstCompleted
  \/ \E f \in Futures : AsCompleted(f)
  \/ ExitPool
  \/ Report
WorkerStep == \E f \in Futures : WorkerCompletes(f)

\* The main process keeps running, and every submitted task completes in the
\* end (unless the pool breaks first).
FairSpec == Spec /\ WF_vars(MainStep) /\ WF_vars(WorkerStep)

\* ------------------------------------------------- the text functions alone
\* normalize_text, hash_trigram and compute_score are pure: each is called on
\* a text of its own, outside a run, and call records the call and its return.
\* One call is made per text, and normalize_text once more on what it returned.
TextChars == {97, 65, 32, 9, 160, 10}      \* a A space tab nbsp newline
ShortTexts == UNION {[1..n -> TextChars] : n \in 0..MaxTextLen}
\* "a \xa0b", "\r a\x0c\x0bB\r\n", "x\u3000y", "hello", hiragana, "Ab  c"
SampleTexts ==
  { <<97, 32, 160, 98>>, <<13, 32, 97, 12, 11, 66, 13, 10>>, <<120, 12288, 121>>,
    <<104, 101, 108, 108, 111>>, Jp8, <<65, 98, 32, 32, 99>> }
\* 197 times "a", then a tail that ends at, before or beyond 200 characters
Filler == [i \in 1..197 |-> 97]
LongTexts ==
  { Filler \o <<98, 99, 122>>,                   \* ...abcz
    Filler \o <<98, 99, 122, 113>>,              \* ...abczq
    Filler \o <<98, 99, 122, 120, 121, 122>>,    \* ...abczxyz
    <<32>> \o Filler \o <<66, 67, 90, 9, 113>>,  \* " ...aBCZ\tq"
    Filler \o <<98, 99, 100>>,                   \* ...abcd
    Filler \o <<98, 99>>,                        \* ...abc
    Filler \o <<97, 98, 99, 122>> }              \* ...aabcz
ScoreTexts == LongTexts \cup {<<>>, <<97, 98>>, Abc, <<32, 65, 66, 67, 32>>, <<104, 101, 108, 108, 111>>}
AllTexts == ShortTexts \cup SampleTexts \cup ScoreTexts \cup {None}
HashDims == {1, 2, 3, 16, 4096, 32767}
ScoreModels == {"nb200", "lr200", "nb", "ja"}

\* No run is going on: main's variables as they are before main starts.
NoRun ==
  /\ args = [input |-> "mixed", model |-> "nb", model_ja |-> "",
             human_threshold |-> -1000, ai_threshold |-> -1000,
             human_threshold_ja |-> -1000, ai_threshold_ja |-> -1000,
             max_rows |-> 0, workers |-> 1]
  /\ pc = "load"
  /\ model = NoneModel /\ model_ja = NoneModel
  /\ human_threshold = NoneFloat /\ ai_threshold = NoneFloat
  /\ human_threshold_ja = NoneFloat /\ ai_threshold_ja = NoneFloat
  /\ state = NewEvalState /\ accepted_rows = 0 /\ should_stop = FALSE
  /\ rows = <<>> /\ pending = EmptyBag
  /\ WORKER_MODEL = NoneModel /\ WORKER_MODEL_JA = NoneModel
  /\ summary = NoneModel /\ error = ""
  /\ rows_read = 0 /\ valid_read = 0 /\ n_submitted = 0 /\ n_merged = 0
  /\ seq = NewSeq

TextInit ==
  /\ text \in AllTexts
  /\ call = NoCall
  /\ NoRun

runVars == <<pc, mainVars, loopVars, poolVars, summary, error, histVars>>

\* normalize_text(value), on the text or on what the call before returned
CallNormalize ==
  /\ call = NoCall \/ (call.op = "normalize_text" /\ ~call.again)
  /\ LET value == IF call = NoCall THEN text ELSE call.ret
     IN  call' = [op |-> "normalize_text", value |-> value, again |-> call # NoCall,
                  ret |-> normalize_text(value)]
  /\ UNCHANGED <<text, runVars>>

\* hash_trigram(text, start, dim), with the three characters inside the text
CallHashTrigram(start, dim) ==
  /\ call = NoCall
  /\ text # None
  /\ start + 2 < Len(text)
  /\ call' = [op |-> "hash_trigram", start |-> start, dim |-> dim,
              ret |-> hash_trigram(text, start, dim)]
  /\ UNCHANGED <<text, runVars>>

\* compute_score(text, model), with a model load_model returned
CallComputeScore(path) ==
  /\ call = NoCall
  /\ text \in ScoreTexts
  /\ call' = [op |-> "compute_score", model |-> path,
              ret |-> compute_score(text, load_model(path))]
  /\ UNCHANGED <<text, runVars>>

TextNext ==
  \/ CallNormalize
  \/ \E start \in {0, 1, 2, 197}, dim \in HashDims : CallHashTrigram(start, dim)
  \/ \E path \in ScoreModels : CallComputeScore(path)

TextSpec == TextInit /\ [][TextNext]_vars

\* ===================================================================
\* Properties
\* ===================================================================

\* Every integer counter of an EvalState (score_sum, a float sum, is not one).
Counters(st) ==
  [total |-> st.total, skipped |-> st.skipped, strict_correct |-> st.strict_correct,
   decided_rows |-> st.decided_rows, decided_correct |-> st.decided_correct,
   gt |-> [k \in {"AI", "Human"} |-> CounterGet(st.gt_counts, k)],
   pred |-> [k \in {"AI", "Human", "Unknown"} |-> CounterGet(st.pred_counts, k)],
   conf |-> [k \in {"AI", "Human"} \X {"AI", "Human", "Unknown"} |-> CounterGet(st.conf, k)],
   jp_rows |-> st.jp_rows, jp_strict_correct |-> st.jp_strict_correct,
   non_jp_rows |-> st.non_jp_rows, non_jp_strict_correct |-> st.non_jp_strict_correct]

\* C1: whatever the batches, the worker count and the order in which the tasks
\* complete, a finished run has exactly the counters of the sequential loop
\* (worker count 1) fed the same rows one at a time.
C1_SameAsSequential ==
  pc = "done" => Counters(state) = Counters(seq.state)

C1_Witness ==
  /\ pc = "done" /\ worker_count > 1 /\ n_submitted >= 2
  /\ state.skipped >= 1
  /\ CounterGet(state.gt_counts, "AI") >= 1 /\ CounterGet(state.gt_counts, "Human") >= 1

\* C2: with max_rows = k > 0 the filter never accepts more than k rows and never
\* takes an accepted row back, and a run over a stream with more than k valid
\* rows ends with processed_rows = total = k, in both modes.
C2_RowBudget ==
  /\ [](max_rows > 0 => accepted_rows <= max_rows /\ state.total <= accepted_rows)
  /\ [](pc = "done" /\ max_rows > 0 /\ valid_read > max_rows
          => state.total = max_rows /\ summary.processed_rows = max_rows)
  /\ [][accepted_rows' >= accepted_rows /\ state'.total >= state.total]_vars

C2_Witness ==
  /\ pc = "done" /\ worker_count > 1 /\ max_rows = 2 /\ valid_read > max_rows
  /\ Len(rows) = 2 /\ RowIsValid(rows[2])

\* C3: in parallel mode no task is submitted once the row budget is reached,
\* and when the summary is computed every submitted task has been merged.
C3_DrainBeforeReport ==
  /\ [](worker_count > 1 /\ pc \in {"report", "done"}
          => n_merged = n_submitted /\ \A f \in Futures : f.merges = 1)
  /\ [](pc = "done" => summary.processed_rows = accepted_rows)
  /\ [][should_stop => n_submitted' = n_submitted]_vars

C3_Witness ==
  /\ pc = "done" /\ worker_count > 1 /\ should_stop /\ n_submitted >= 2
  /\ summary.processed_rows = max_rows

\* C4: in parallel mode the pending list never holds more than 3 x worker count
\* tasks, and a task is submitted only while it holds fewer.
C4_InflightBound ==
  /\ [](BagCardinality(pending) <= 3 * worker_count)
  /\ [][n_submitted' > n_submitted => BagCardinality(pending) < 3 * worker_count]_vars

C4_Witness ==
  worker_count > 1 /\ BagCardinality(pending) = 3 * worker_count

\* The row's label, lower-cased, is not "ai" or "human", or its normalized text is empty.
SkipCaseLoose(row) ==
  \/ Lower(StrOrEmpty(Get(row, "label", None))) \notin {<<97, 105>>, <<104, 117, 109, 97, 110>>}
  \/ normalize_text(Get(row, "text", None)) = <<>>
\* The same, with the label also stripped of surrounding whitespace.
SkipCase(row) ==
  \/ Lower(Strip(StrOrEmpty(Get(row, "label", None)))) \notin {<<97, 105>>, <<104, 117, 109, 97, 110>>}
  \/ normalize_text(Get(row, "text", None)) = <<>>
NotSkipCase(row) == ~SkipCase(row)
CountSkip(batch) == Cardinality({i \in 1..Len(batch) : SkipCase(batch[i])})
CountSkipLoose(batch) == Cardinality({i \in 1..Len(batch) : SkipCaseLoose(batch[i])})

\* How many rows of a batch come up to and including the row that fills the budget.
RECURSIVE ExaminedLen(_, _, _)
ExaminedLen(batch, i, room) ==
  IF i > Len(batch) THEN Len(batch)
  ELSE IF SkipCase(batch[i]) THEN ExaminedLen(batch, i + 1, room)
  ELSE IF room = 1 THEN i
  ELSE ExaminedLen(batch, i + 1, room - 1)
Examined(batch) ==
  SubSeq(batch, 1, ExaminedLen(batch, 1, IF max_rows > 0 THEN max_rows - accepted_rows ELSE 0))

SumOf(c, keys) == LET RECURSIVE Sum(_)
                      Sum(ks) == IF ks = {} THEN 0
                                 ELSE LET k == CHOOSE x \in ks : TRUE
                                      IN  CounterGet(c, k) + Sum(ks \ {k})
                  IN  Sum(keys)
Tallied(st) ==
  <<st.total, SumOf(st.gt_counts, {"AI", "Human"}),
    SumOf(st.pred_counts, {"AI", "Human", "Unknown"}),
    SumOf(st.conf, {"AI", "Human"} \X {"AI", "Human", "Unknown"})>>

\* C5, as stated: every row of a batch whose lower-cased label is not "ai" or
\* "human", or whose normalized text is empty, adds one to skipped and is not
\* accepted for scoring.
C5_AsStated ==
  [][rows_read' > rows_read
       => /\ state'.skipped = state.skipped + CountSkipLoose(rows')
          /\ accepted_rows' - accepted_rows <= Len(rows') - CountSkipLoose(rows')]_vars

\* C5, amended: of the rows of a batch up to and including the one that fills
\* the row budget, each row whose label, stripped and lower-cased, is not "ai"
\* or "human", or whose normalized text is empty, adds exactly one to skipped
\* and nothing to any other counter, is not among the rows passed to scoring,
\* and does not end the run; the rows after the budget-filling row are not counted.
C5_SkippedRows ==
  [][rows_read' > rows_read
       => LET seen == Examined(rows')
              kept == SelectSeq(seen, NotSkipCase)
          IN  /\ state'.skipped = state.skipped + CountSkip(seen)
              /\ accepted_rows' = accepted_rows + Len(kept)
              /\ pc' # "error"
              /\ worker_count = 1 =>
                   Tallied(state') = [i \in 1..4 |-> Tallied(state)[i] + Len(kept)]
              /\ worker_count > 1 =>
                   /\ state' = [state EXCEPT !.skipped = @ + CountSkip(seen)]
                   /\ n_submitted' = n_submitted + B(Len(kept) > 0)
                   /\ Len(kept) = 0 => pending' = pending
                   /\ Len(kept) > 0 =>
                        \E f \in BagToSet(pending') :
                          /\ pending' = pending (+) SetToBag({f})
                          /\ ~f.done /\ Len(f.rows) = Len(kept)
                          /\ \A i \in 1..Len(kept) : f.rows[i][2] = kept[i].text]_vars

C5_Witness ==
  /\ pc = "done" /\ Len(rows) = 2 /\ rows[1] = RowBot /\ rows[2] = RowBlank
  /\ state.skipped >= 2 /\ state.total >= 1

\* What the claim calls an invalid configuration, read off the files and the command line.
ParamArray(json) ==
  IF Get(json, "type", "") = "logistic_hash3" THEN Get(json, "weights", <<>>) ELSE Get(json, "delta", <<>>)
FileInvalid(path) ==
  \/ Get(ModelFiles[path], "dim", 0) <= 0
  \/ Len(ParamArray(ModelFiles[path])) # Get(ModelFiles[path], "dim", 0)
FileThreshold(path, key, default) ==
  Max(0, Min(1000, Get(Get(ModelFiles[path], "thresholds", << >>), key, default)))
Chosen(arg, file_value) == IF arg < 0 THEN file_value ELSE Max(0, Min(1000, arg))
ThresholdsInvalid ==
  \/ Chosen(args.ai_threshold, FileThreshold(args.model, "ai_min", 550))
       <= Chosen(args.human_threshold, FileThreshold(args.model, "human_max", 450))
  \/ /\ args.model_ja # ""
     /\ Chosen(args.ai_threshold_ja, FileThreshold(args.model_ja, "ai_min", 550))
          <= Chosen(args.human_threshold_ja, FileThreshold(args.model_ja, "human_max", 450))
ModelsInvalid == FileInvalid(args.model) \/ (args.model_ja # "" /\ FileInvalid(args.model_ja))

\* C6: with a model of dim <= 0 or a parameter array whose length is not dim,
\* or with ai_min <= human_max for the primary or the secondary thresholds,
\* main ends in an error before any row is read, filtered, scored or merged,
\* and no summary is written.
C6_FatalConfiguration ==
  /\ ModelsInvalid => pc \in {"load", "error"}
  /\ ModelsInvalid \/ ThresholdsInvalid =>
       /\ pc \in {"load", "thresholds", "error"}
       /\ pc = "error" => error # ""
       /\ rows_read = 0 /\ n_submitted = 0 /\ pending = EmptyBag
       /\ state = NewEvalState /\ summary = NoneModel

C6_Witness ==
  /\ pc = "error" /\ ~ModelsInvalid /\ ThresholdsInvalid
  /\ args.model_ja = "nb_thr"

\* The field-wise sum of two PartialResults.
PartSum(p, q) == [k \in DOMAIN p |-> p[k] + q[k]]
DoneParts == {f.result : f \in {g \in Futures : g.done /\ ~IsRaised(g.result)}}

Rank(judge) == IF judge = "Human" THEN 0 ELSE IF judge = "Unknown" THEN 1 ELSE 2
Scores == {5 * k : k \in 0..200}
MonotoneFor(h, a) ==
  \A s1, s2 \in Scores :
    s1 <= s2 => Rank(predict_judge(s1, h, a)) <= Rank(predict_judge(s2, h, a))

\* C8: with the thresholds of a run (human_max < ai_min), predict_judge never
\* ranks a lower score above a higher one in the order Human < Unknown < AI.
C8_JudgeMonotone ==
  pc = "evaluate" =>
    /\ human_threshold < ai_threshold /\ human_threshold_ja < ai_threshold_ja
    /\ MonotoneFor(human_threshold, ai_threshold)
    /\ MonotoneFor(human_threshold_ja, ai_threshold_ja)

C8_Witness ==
  /\ pc = "evaluate"
  /\ {predict_judge(sc, human_threshold, ai_threshold) : sc \in Scores} = {"Human", "Unknown", "AI"}
  /\ human_threshold_ja # human_threshold

\* C9: a step in which a worker finishes a task changes that task's future and
\* nothing else: not the EvalState, not the models, not the controller's
\* variables; and the models stay as loaded until the run ends.
C9_WorkersArePure ==
  /\ [][(BagCardinality(Only(pending', FALSE)) < BagCardinality(Only(pending, FALSE))
           /\ pending' = Succeeded(pending'))
          => /\ \E f \in Futures : \E g \in BagToSet(pending') :
                  /\ ~f.done /\ g.done /\ pending' = Replace(pending, f, g)
                  /\ [g EXCEPT !.done = FALSE, !.result = NoneModel] = f
             /\ state' = state /\ model' = model /\ model_ja' = model_ja
             /\ WORKER_MODEL' = WORKER_MODEL /\ WORKER_MODEL_JA' = WORKER_MODEL_JA
             /\ accepted_rows' = accepted_rows /\ should_stop' = should_stop
             /\ summary' = summary /\ n_merged' = n_merged /\ pc' = pc]_vars
  /\ [][pc # "load" => model' = model /\ model_ja' = model_ja]_vars
  /\ [](pc \in {"stream", "wait", "drain", "report", "done"} /\ worker_count > 1
          => WORKER_MODEL = model /\ WORKER_MODEL_JA = model_ja)

C9_Witness ==
  /\ pc = "drain" /\ state.total > 0
  /\ \E f \in Futures : f.done /\ ~f.yielded

\* The controller is inside wait() or as_completed() and no finished future is
\* there for it to take.
Blocked ==
  \/ pc = "wait" /\ \A f \in Futures : ~f.done
  \/ pc = "drain" /\ (\E f \in Futures : ~f.yielded) /\ (\A f \in Futures : f.yielded \/ ~f.done)

\* C10, as stated: the controller blocks on the workers only when the number of
\* in-flight tasks has reached the cap.
C10_AsStated ==
  Blocked => BagCardinality(pending) >= 3 * worker_count

\* C10, amended: while the stream is being read the controller blocks on the
\* workers only when the number of in-flight tasks has reached the cap, and it
\* goes back to reading and submitting only after a task was merged; it blocks
\* once more, whatever the number of in-flight tasks, in the final drain, after
\* which nothing is read or submitted.
C10_BlocksAtCapOrFinalDrain ==
  /\ [](Blocked => \/ pc = "wait" /\ BagCardinality(pending) >= 3 * worker_count
                   \/ pc = "drain")
  /\ [][pc = "wait" /\ pc' # "wait" /\ pc' # "error"
          => /\ n_merged' > n_merged
             /\ BagCardinality(pending') < BagCardinality(pending)
             /\ state'.total > state.total]_vars
  /\ [][rows_read' > rows_read \/ n_submitted' > n_submitted => pc = "stream"]_vars
  /\ [][pc = "drain" => pc' \in {"drain", "report", "error"}]_vars

C10_Witness ==
  /\ pc = "stream" /\ worker_count > 1 /\ state.total > 0
  /\ BagCardinality(pending) > 0 /\ n_submitted >= 3 * worker_count

\* An EvalState or PartialResult all of whose rows were classified Unknown
\* with a score of exactly 0.5.
AllUnknown(c, total, score_sum) ==
  /\ c.decided_rows = 0 /\ c.strict_correct = 0 /\ c.decided_correct = 0
  /\ c.pred = [k \in {"AI", "Human", "Unknown"} |-> IF k = "Unknown" THEN total ELSE 0]
  /\ c.conf[<<"AI", "Unknown">>] = c.gt["AI"]
  /\ c.conf[<<"Human", "Unknown">>] = c.gt["Human"]
  /\ c.gt["AI"] + c.gt["Human"] = total
  /\ \A g \in {"AI", "Human"} : \A p \in {"AI", "Human"} : c.conf[<<g, p>>] = 0
  /\ score_sum = 500 * total

\* C11: with a naive_bayes_hash3 model whose delta is all 0 and whose
\* prior_logit is 0, and the thresholds 0.45 and 0.55, every accepted row
\* scores exactly 0.5 and is classified Unknown: decided_rows and
\* strict_correct stay 0, all rows are in the AI->Unknown and Human->Unknown
\* cells, and a run over at least one valid row reports unknown_rate = 1.0.
C11_DegenerateModel ==
  args.model = "zero" /\ args.model_ja = "" /\ pc \notin {"load", "thresholds"} =>
    /\ human_threshold = 450 /\ ai_threshold = 550
    /\ AllUnknown(Counters(state), state.total, state.score_sum)
    /\ \A f \in Futures : f.done /\ ~IsRaised(f.result) =>
         /\ f.result.total = Len(f.rows) /\ f.result.score_sum = 500 * Len(f.rows)
         /\ f.result.decided_rows = 0 /\ f.result.strict_correct = 0
         /\ f.result.pred_unknown = Len(f.rows)
         /\ f.result.ai_unknown + f.result.human_unknown = Len(f.rows)
    /\ pc = "done" /\ state.total >= 1 =>
         /\ summary.unknown_rate = 1000000 /\ summary.coverage = 0
         /\ summary.strict_accuracy = 0 /\ summary.decided_accuracy = 0
         /\ summary.processed_rows = state.total

C11_Witness ==
  /\ args.model = "zero" /\ pc = "done" /\ worker_count > 1
  /\ state.total >= 2 /\ summary.unknown_rate = 1000000
  /\ CounterGet(state.conf, <<"AI", "Unknown">>) >= 1
  /\ CounterGet(state.conf, <<"Human", "Unknown">>) >= 1

\* C12: normalize_text applied to its own result returns that result, and it
\* returns the empty string for None, for "" and for a text of whitespace only.
C12_NormalizeIdempotent ==
  call.op = "normalize_text" =>
    /\ call.again => call.ret = call.value
    /\ normalize_text(call.ret) = call.ret
    /\ (call.value = None \/ \A i \in 1..Len(call.value) : call.value[i] \in PyWhitespace)
         => call.ret = <<>>

C12_Witness ==
  /\ call.op = "normalize_text" /\ call.again
  /\ text # None /\ call.ret # text /\ Len(call.ret) >= 3
  /\ \E i \in 1..Len(text) : text[i] = 160

\* hash_trigram of the source, run on a few trigrams: (text, dim) -> result.
HashVectors ==
  { <<Abc, 4, 3>>, <<Abc, 16, 11>>, <<<<97, 97, 97>>, 16, 2>>,
    <<<<98, 99, 122>>, 16, 8>>, <<<<97, 97, 98>>, 16, 15>>, <<<<120, 121, 122>>, 4, 0>> }

\* C13: for every text, every start with start + 2 < len(text) and every
\* dim > 0, hash_trigram returns an integer in [0, dim); it is the 32-bit
\* FNV-1a hash of the three characters, reduced modulo dim.
C13_HashInRange ==
  /\ call.op = "hash_trigram" =>
       /\ call.dim > 0 /\ call.start + 2 < Len(text)
       /\ call.ret \in 0..(call.dim - 1)
       /\ call.ret = hash_trigram(SubSeq(text, call.start + 1, call.start + 3), 0, call.dim)
  /\ \A v \in HashVectors : hash_trigram(v[1], 0, v[2]) = v[3]

C13_Witness ==
  /\ call.op = "hash_trigram" /\ call.dim = 4096 /\ call.start = 197
  /\ call.ret > 16

\* C14: when reading the data source fails, or the result of a worker task
\* raises, at any point of run_evaluation, the run ends there with the error:
\* nothing more is read, submitted or merged and no summary is written, whatever
\* had been merged before.
C14_FailurePropagates ==
  /\ [](error # "" => pc = "error" /\ summary = NoneModel)
  /\ [](pc = "error" => error # "")
  /\ [][pc # "error"]_vars
  /\ [][error' # error
          => /\ pc \in {"load", "thresholds", "stream", "wait", "drain"}
             /\ pc' = "error" /\ summary' = NoneModel
             /\ rows_read' = rows_read /\ n_submitted' = n_submitted]_vars
  /\ [][summary' # summary => pc = "report" /\ error = "" /\ error' = ""]_vars

C14_Witness ==
  /\ pc = "error" /\ error = "data source read failed"
  /\ worker_count > 1 /\ state.total > 0 /\ BagCardinality(pending) > 0
  /\ summary = NoneModel

\* Ground truth, prediction and language flag of each of the rows <<gt, text>>,
\* row by row, under the given models and thresholds.
Judged(valid_rows, m, mj, h, a, hj, aj) ==
  [i \in 1..Len(valid_rows) |->
     LET c == RowChoice(valid_rows[i][2], m, mj, h, a, hj, aj)
     IN  [gt |-> valid_rows[i][1],
          jp |-> is_likely_japanese_text(valid_rows[i][2]),
          pred |-> predict_judge(compute_score(valid_rows[i][2], c.row_model),
                                 c.row_human_threshold, c.row_ai_threshold)]] \o <<>>

\* What C15 says a PartialResult over the judged rows j holds, as plain counts.
CountedPart(j) ==
  [total |-> Len(j),
   strict_correct |-> Cardinality({i \in DOMAIN j : j[i].pred = j[i].gt}),
   decided_rows |-> Cardinality({i \in DOMAIN j : j[i].pred # "Unknown"}),
   decided_correct |-> Cardinality({i \in DOMAIN j : j[i].pred # "Unknown" /\ j[i].pred = j[i].gt}),
   gt_ai |-> Cardinality({i \in DOMAIN j : j[i].gt = "AI"}),
   gt_human |-> Cardinality({i \in DOMAIN j : j[i].gt = "Human"}),
   pred_ai |-> Cardinality({i \in DOMAIN j : j[i].pred = "AI"}),
   pred_human |-> Cardinality({i \in DOMAIN j : j[i].pred = "Human"}),
   pred_unknown |-> Cardinality({i \in DOMAIN j : j[i].pred = "Unknown"}),
   ai_ai |-> Cardinality({i \in DOMAIN j : j[i].gt = "AI" /\ j[i].pred = "AI"}),
   ai_human |-> Cardinality({i \in DOMAIN j : j[i].gt = "AI" /\ j[i].pred = "Human"}),
   ai_unknown |-> Cardinality({i \in DOMAIN j : j[i].gt = "AI" /\ j[i].pred = "Unknown"}),
   human_ai |-> Cardinality({i \in DOMAIN j : j[i].gt = "Human" /\ j[i].pred = "AI"}),
   human_human |-> Cardinality({i \in DOMAIN j : j[i].gt = "Human" /\ j[i].pred = "Human"}),
   human_unknown |-> Cardinality({i \in DOMAIN j : j[i].gt = "Human" /\ j[i].pred = "Unknown"}),
   jp_rows |-> Cardinality({i \in DOMAIN j : j[i].jp}),
   jp_strict_correct |-> Cardinality({i \in DOMAIN j : j[i].jp /\ j[i].pred = j[i].gt}),
   non_jp_rows |-> Cardinality({i \in DOMAIN j : ~j[i].jp}),
   non_jp_strict_correct |-> Cardinality({i \in DOMAIN j : ~j[i].jp /\ j[i].pred = j[i].gt})]

\* The counters c of an EvalState with the counts e added, counter by counter.
CountersPlus(c, e) ==
  [total |-> c.total + e.total, skipped |-> c.skipped,
   strict_correct |-> c.strict_correct + e.strict_correct,
   decided_rows |-> c.decided_rows + e.decided_rows,
   decided_correct |-> c.decided_correct + e.decided_correct,
   gt |-> [k \in {"AI", "Human"} |-> c.gt[k] + (IF k = "AI" THEN e.gt_ai ELSE e.gt_human)],
   pred |-> [k \in {"AI", "Human", "Unknown"} |->
               c.pred[k] + (IF k = "AI" THEN e.pred_ai ELSE IF k = "Human" THEN e.pred_human ELSE e.pred_unknown)],
   conf |-> [k \in {"AI", "Human"} \X {"AI", "Human", "Unknown"} |->
               c.conf[k] + (IF k = <<"AI", "AI">> THEN e.ai_ai
                            ELSE IF k = <<"AI", "Human">> THEN e.ai_human
                            ELSE IF k = <<"AI", "Unknown">> THEN e.ai_unknown
                            ELSE IF k = <<"Human", "AI">> THEN e.human_ai
                            ELSE IF k = <<"Human", "Human">> THEN e.human_human
                            ELSE e.human_unknown)],
   jp_rows |-> c.jp_rows + e.jp_rows, jp_strict_correct |-> c.jp_strict_correct + e.jp_strict_correct,
   non_jp_rows |-> c.non_jp_rows + e.non_jp_rows,
   non_jp_strict_correct |-> c.non_jp_strict_correct + e.non_jp_strict_correct]

\* C15: every accepted row adds one to total, one to strict_correct iff its
\* prediction is its ground truth, one to decided_rows iff its prediction is
\* not Unknown and then one to decided_correct iff it is the ground truth, one
\* to the confusion cell (ground truth, prediction) and to no other, and one to
\* the Japanese or the non-Japanese rows, with the matching correct count iff
\* the prediction is the ground truth: a worker's PartialResult, and what a
\* step of the sequential loop adds to the EvalState, are these counts.
C15_RowTallies ==
  /\ [](\A f \in Futures : f.done /\ ~IsRaised(f.result) =>
          \A e \in {CountedPart(Judged(f.rows, WORKER_MODEL, WORKER_MODEL_JA, f.human_threshold, f.ai_threshold, f.human_threshold_ja, f.ai_threshold_ja))} :
              /\ [k \in DOMAIN e |-> f.result[k]] = e
              /\ e.strict_correct <= e.decided_rows
              /\ e.ai_ai + e.ai_human + e.ai_unknown + e.human_ai + e.human_human + e.human_unknown = e.total
              /\ e.jp_rows + e.non_jp_rows = e.total)
  /\ [][rows_read' > rows_read /\ worker_count = 1 =>
          \A sel \in {select_valid_rows(rows', max_rows, accepted_rows)} :
            \A e \in {CountedPart(Judged(sel.valid_rows, model, model_ja, human_threshold, ai_threshold, human_threshold_ja, ai_threshold_ja))} :
              Counters(state') = CountersPlus([Counters(state) EXCEPT !.skipped = @ + sel.skipped], e)]_vars

C15_Witness ==
  \E f \in Futures :
    /\ f.done /\ ~IsRaised(f.result) /\ f.result.total = 2
    /\ f.result.strict_correct = 1 /\ f.result.decided_rows = 1
    /\ f.result.human_unknown = 1 /\ f.result.jp_rows = 1 /\ f.result.non_jp_rows = 1

\* Whether C16 has the row's text scored by the secondary model: one is
\* configured and the text is flagged likely-Japanese.
UsesSecondary(row_text) == ~IsNoneModel(model_ja) /\ is_likely_japanese_text(row_text)

\* Each of the rows <<gt, text>> judged on its own, by main's secondary model
\* and thresholds where UsesSecondary and by the primary ones everywhere else.
JudgedPerRow(valid_rows) ==
  [i \in 1..Len(valid_rows) |->
     LET ja == UsesSecondary(valid_rows[i][2])
         score == compute_score(valid_rows[i][2], IF ja THEN model_ja ELSE model)
     IN  [gt |-> valid_rows[i][1],
          jp |-> is_likely_japanese_text(valid_rows[i][2]),
          score |-> score,
          pred |-> predict_judge(score, IF ja THEN human_threshold_ja ELSE human_threshold,
                                 IF ja THEN ai_threshold_ja ELSE ai_threshold)]] \o <<>>

RECURSIVE ScoreSum(_, _)
ScoreSum(j, i) == IF i > Len(j) THEN 0 ELSE j[i].score + ScoreSum(j, i + 1)

\* C16: in both modes every row is scored and classified by the secondary model
\* and the secondary thresholds iff a secondary model is configured and the
\* row's text is flagged likely-Japanese, and by the primary model and
\* thresholds otherwise, whatever the other rows of its batch are: a worker's
\* result, and what a step of the sequential loop adds, are the counts and the
\* score sum of its rows judged one by one in this way.
C16_SecondaryPerRow ==
  /\ [](\A f \in Futures : f.done /\ ~IsRaised(f.result) =>
          \A j \in {JudgedPerRow(f.rows)} : \A e \in {CountedPart(j)} :
              /\ [k \in DOMAIN e |-> f.result[k]] = e
              /\ f.result.score_sum = ScoreSum(j, 1))
  /\ [][rows_read' > rows_read /\ worker_count = 1 =>
          \A sel \in {select_valid_rows(rows', max_rows, accepted_rows)} :
            \A j \in {JudgedPerRow(sel.valid_rows)} :
              /\ Counters(state') = CountersPlus([Counters(state) EXCEPT !.skipped = @ + sel.skipped], CountedPart(j))
              /\ state'.score_sum = state.score_sum + ScoreSum(j, 1)]_vars

\* A task of two rows, one flagged and one not, with a secondary model
\* configured whose verdict on the flagged row differs from the primary's.
C16_Witness ==
  /\ ~IsNoneModel(model_ja)
  /\ \E f \in Futures :
       /\ f.done /\ ~IsRaised(f.result) /\ Len(f.rows) = 2
       /\ f.result.jp_rows = 1 /\ f.result.non_jp_rows = 1
       /\ \E i \in 1..2 :
            /\ UsesSecondary(f.rows[i][2])
            /\ predict_judge(compute_score(f.rows[i][2], model), human_threshold, ai_threshold)
                 # predict_judge(compute_score(f.rows[i][2], model_ja), human_threshold_ja, ai_threshold_ja)

\* The score of every sample text under every sample model.
ScoreTable == [m \in ScoreModels |-> [t \in ScoreTexts |-> compute_score(t, load_model(m))]]

\* max_chars as compute_score applies it: the model's, which the Model type
\* has at 200 or more, and 200 for a model file that states less.
MaxCharsOf(m) == IF m.max_chars >= MinMaxChars THEN m.max_chars ELSE MinMaxChars

\* The window starts C17 names, and the texts that agree on the first k characters.
WindowStarts(n, k) == 0..(Min(Len(n), k) - 3)
Agree(n1, n2, k) == SubSeq(n1, 1, Min(Len(n1), k)) = SubSeq(n2, 1, Min(Len(n2), k))

\* How many of the windows hit each bucket, and the sum of vec weighted by it.
Hits(n, k, dim) == [idx \in 0..(dim - 1) |-> Cardinality({i \in WindowStarts(n, k) : hash_trigram(n, i, dim) = idx})]
RECURSIVE HitSum(_, _, _)
HitSum(vec, hits, idx) == IF idx \notin DOMAIN hits THEN 0 ELSE vec[idx + 1] * hits[idx] + HitSum(vec, hits, idx + 1)

\* The score of the normalized text n if exactly the windows of WindowStarts are hashed.
WindowScore(n, m, k) ==
  IF Len(n) < 3 THEN 500
  ELSE IF m.type = "logistic_hash3"
    THEN sigmoid(m.bias + (HitSum(m.weights, Hits(n, k, m.dim), 0) \div Cardinality(WindowStarts(n, k))))
    ELSE sigmoid(m.prior_logit + HitSum(m.delta, Hits(n, k, m.dim), 0))

\* C17: compute_score hashes exactly the windows that start at 0 ..
\* min(len(normalized), max_chars) - 3, so its score is the score of these
\* windows alone, and every text whose normalized form agrees with this one's
\* on the first max_chars characters has the same score under the same model.
C17_OnlyFirstMaxChars ==
  call.op = "compute_score" =>
    \A m \in {load_model(call.model)} : \A n \in {normalize_text(text)} :
      /\ call.ret = WindowScore(n, m, MaxCharsOf(m))
      /\ \A u \in ScoreTexts :
           Agree(n, normalize_text(u), MaxCharsOf(m)) => ScoreTable[call.model][u] = call.ret
      /\ call.model = "nb200" /\ text = Filler \o <<98, 99, 122>> => call.ret = 953

\* A text one character longer than max_chars, scored as its first max_chars
\* characters are, although the window that starts past them hits another bucket.
C17_Witness ==
  /\ call.op = "compute_score" /\ call.model = "nb200"
  /\ text = Filler \o <<98, 99, 122, 113>>
  /\ Len(normalize_text(text)) > MaxCharsOf(load_model("nb200"))
  /\ call.ret = ScoreTable["nb200"][Filler \o <<98, 99, 122>>]
  /\ load_model("nb200").delta[hash_trigram(normalize_text(text), 198, 16) + 1] # 0

\* The characters normalize_text turns into spaces, and those it leaves alone.
Blank(c) == c \in ReBlank \cup {160}
NonBlank(c) == ~Blank(c)
\* The number of maximal runs of blanks in s.
BlankRuns(s) == Cardinality({i \in 1..Len(s) : Blank(s[i]) /\ (i = 1 \/ ~Blank(s[i - 1]))})

\* C18 as the spec states it: the output is lowercase and trimmed, and its only
\* whitespace characters are single ASCII spaces between non-whitespace
\* characters, every run of whitespace of the input (newlines and carriage
\* returns included) having become one space.
C18_AsStated ==
  call.op = "normalize_text" =>
    /\ \A i \in 1..Len(call.ret) : LowerChar(call.ret[i]) = call.ret[i]
    /\ \A i \in 1..Len(call.ret) :
         call.ret[i] \in PyWhitespace =>
           /\ call.ret[i] = 32 /\ 1 < i /\ i < Len(call.ret)
           /\ call.ret[i - 1] \notin PyWhitespace /\ call.ret[i + 1] \notin PyWhitespace

\* C18: the output of normalize_text is lowercase and has no leading or
\* trailing whitespace; every run of spaces, tabs, vertical tabs, form feeds and
\* non-breaking spaces inside the input appears as exactly one ASCII space, and
\* every other character, newlines and carriage returns included, is kept in
\* its place (in lower case).
C18_NormalizedForm ==
  call.op = "normalize_text" =>
    \A ret \in {call.ret} : \A inner \in {Lower(Strip(StrOrEmpty(call.value)))} :
      /\ \A i \in 1..Len(ret) : LowerChar(ret[i]) = ret[i]
      /\ ret # <<>> => ret[1] \notin PyWhitespace /\ ret[Len(ret)] \notin PyWhitespace
      /\ \A i \in 1..Len(ret) : Blank(ret[i]) => ret[i] = 32 /\ ~Blank(ret[i - 1]) /\ ~Blank(ret[i + 1])
      /\ SelectSeq(ret, NonBlank) = SelectSeq(inner, NonBlank)
      /\ BlankRuns(ret) = BlankRuns(inner)
      /\ call.value = <<97, 10, 65>> => ret = <<97, 10, 97>>
      /\ call.value = <<97, 32, 10>> => ret = <<97>>

\* "\r a\x0c\x0bB\r\n" has become "a b".
C18_Witness ==
  /\ call.op = "normalize_text"
  /\ call.value = <<13, 32, 97, 12, 11, 66, 13, 10>>
  /\ call.ret = <<97, 32, 98>>

\* C19: if main keeps running and every submitted task completes, the run
\* ends, and where it ends without an error every task is merged and the
\* summary is produced. Nothing times out or retries: while a task is not
\* complete the summary is not computed, and while main waits with no task
\* complete it takes no step of its own.
C19_TerminatesIfTasksComplete ==
  /\ <>(pc \in {"done", "error"})
  /\ [](pc = "done" => /\ error = "" /\ summary # NoneModel
                       /\ n_merged = n_submitted /\ summary.processed_rows = state.total)
  /\ []((\E f \in Futures : ~f.done) => pc \notin {"report", "done"} /\ summary = NoneModel)
  /\ [][(pc \in {"wait", "drain"} /\ Futures # {} /\ (\A f \in Futures : ~f.done))
          => (pc' = pc /\ state' = state /\ n_merged' = n_merged /\ n_submitted' = n_submitted)]_vars

\* A parallel run that has ended with its summary after tasks were merged both
\* at the in-flight cap and in the final drain.
C19_Witness ==
  /\ pc = "done" /\ worker_count > 1 /\ summary # NoneModel
  /\ n_submitted > max_inflight /\ n_merged = n_submitted
  /\ \E f \in Futures : f.yielded

\* The futures of a bag that no merge has touched, and the rows of a bag's tasks.
Unmerged(bag) == [f \in {g \in BagToSet(bag) : g.merges = 0} |-> bag[f]]
RECURSIVE RowsOf(_)
RowsOf(bag) ==
  IF bag = EmptyBag THEN 0
  ELSE LET fut == CHOOSE f \in BagToSet(bag) : TRUE
       IN  Len(fut.rows) + RowsOf(bag (-) SetToBag({fut}))

\* C20: in parallel mode every submitted task is merged exactly once before the
\* summary. As long as nothing has failed, the tasks merged and the pending
\* tasks not yet merged are together the tasks submitted, and so are their
\* rows; the tasks merged at the in-flight cap are exactly the complete ones
\* and leave the pending list; the final drain merges one complete task at a
\* time, each once; and at the summary every task, and every accepted row, has
\* been merged.
C20_MergedExactlyOnce ==
  /\ [](worker_count > 1 /\ error = "" =>
          /\ n_submitted = n_merged + BagCardinality(Unmerged(pending))
          /\ accepted_rows = state.total + RowsOf(Unmerged(pending))
          /\ \A f \in Futures : f.merges = (IF f.yielded THEN 1 ELSE 0))
  /\ [][(pc = "wait" /\ n_merged' > n_merged /\ error' = "") =>
          (/\ pending' = Only(pending, FALSE)
           /\ n_merged' = n_merged + BagCardinality(Only(pending, TRUE))
           /\ state'.total = state.total + RowsOf(Only(pending, TRUE)))]_vars
  /\ [][(pc = "drain" /\ n_merged' > n_merged) =>
          (\E f \in Futures :
             /\ f.done /\ ~f.yielded /\ f.merges = 0
             /\ pending' = Replace(pending, f, [f EXCEPT !.yielded = TRUE, !.merges = 1])
             /\ n_merged' = n_merged + 1
             /\ state'.total = state.total + Len(f.rows))]_vars
  /\ [](worker_count > 1 /\ pc \in {"report", "done"} =>
          n_merged = n_submitted /\ state.total = accepted_rows /\ Unmerged(pending) = EmptyBag)

\* The final drain under way: tasks were merged at the cap and have left the
\* list, one pending task is merged, another is still to be merged.
C20_Witness ==
  /\ pc = "drain" /\ error = ""
  /\ \E f \in Futures : f.yielded /\ f.merges = 1
  /\ \E f \in Futures : ~f.yielded /\ f.merges = 0
  /\ n_merged > BagCardinality(pending) - BagCardinality(Unmerged(pending))

\* The sums C21 names, over the counters c of an EvalState.
ConfSum(c) == c.conf[<<"AI", "AI">>] + c.conf[<<"AI", "Human">>] + c.conf[<<"AI", "Unknown">>] + c.conf[<<"Human", "AI">>] + c.conf[<<"Human", "Human">>] + c.conf[<<"Human", "Unknown">>]
Consistent(c) ==
  /\ c.total = c.gt["AI"] + c.gt["Human"]
  /\ c.total = c.pred["AI"] + c.pred["Human"] + c.pred["Unknown"]
  /\ c.total = ConfSum(c)
  /\ c.total = c.jp_rows + c.non_jp_rows
  /\ c.decided_rows = c.pred["AI"] + c.pred["Human"]
  /\ c.strict_correct = c.decided_correct
  /\ c.strict_correct = c.conf[<<"AI", "AI">>] + c.conf[<<"Human", "Human">>]
  /\ c.strict_correct = c.jp_strict_correct + c.non_jp_strict_correct

\* C21: after any sequence of merges (none, some or all of a run's, in
\* sequential and in parallel mode, a run that fails half-way included) the
\* EvalState has total = gt[AI] + gt[Human] = pred[AI] + pred[Human] +
\* pred[Unknown] = the sum of the six confusion cells = jp_rows + non_jp_rows,
\* decided_rows = pred[AI] + pred[Human], and strict_correct = decided_correct
\* = conf[AI,AI] + conf[Human,Human] = jp_strict_correct + non_jp_strict_correct.
C21_CountersConsistent ==
  \A c \in {Counters(state)} : Consistent(c)

\* An EvalState after merges of several batches, with correct and wrong
\* decided predictions and rows of both languages in it.
C21_Witness ==
  \A c \in {Counters(state)} :
    /\ c.total >= 3 /\ c.strict_correct > 0 /\ c.decided_rows > c.decided_correct
    /\ c.conf[<<"AI", "Human">>] > 0 /\ c.jp_rows > 0 /\ c.non_jp_rows > 0

\* The rows counted so far: accepted for scoring (processed once their task is
\* merged) or skipped.
Counted == accepted_rows + state.skipped

\* C22: every row read up to and including the row that fills the row budget
\* is counted once, as accepted for scoring or as skipped, and the rows after
\* it are not counted: a read adds the rows of its batch up to that row to the
\* count and nothing else does, no batch is read once the budget is filled,
\* and at the end processed_rows + skipped_rows is that count, which with
\* max_rows = 0 is the number of rows of the stream.
C22_EveryRowCountedOnce ==
  /\ [][rows_read' > rows_read =>
          \A seen \in {Examined(rows')} :
            /\ ~should_stop
            /\ Counted' = Counted + Len(seen)
            /\ accepted_rows' = accepted_rows + Len(SelectSeq(seen, NotSkipCase))
            /\ should_stop' = (max_rows > 0 /\ accepted_rows' >= max_rows)
            /\ Len(seen) < Len(rows') => should_stop' /\ NotSkipCase(seen[Len(seen)])]_vars
  /\ [][rows_read' = rows_read => Counted' = Counted /\ accepted_rows' = accepted_rows]_vars
  /\ [][should_stop => rows_read' = rows_read]_vars
  /\ [](max_rows = 0 => Counted = rows_read)
  /\ [](Counted <= rows_read /\ state.total <= accepted_rows)
  /\ [](pc = "done" =>
          /\ summary.processed_rows + summary.skipped_rows = Counted
          /\ summary.processed_rows = state.total /\ state.total = accepted_rows
          /\ max_rows = 0 => summary.processed_rows + summary.skipped_rows = rows_read)

\* A finished parallel run whose last batch holds the row that fills the
\* budget and a row after it, which is counted nowhere.
C22_Witness ==
  /\ pc = "done" /\ worker_count > 1 /\ max_rows > 0 /\ should_stop
  /\ Len(rows) = 2 /\ rows[2] = RowBot
  /\ summary.processed_rows + summary.skipped_rows = rows_read - 1

====
